---- MODULE Spec2Model ----
(***************************************************************************)
(* Model of src/txdb-leveldb.cpp of ECCoin: the LevelDB-backed transaction *)
(* and block index (class CTxDB).                                          *)
(*                                                                         *)
(*   SpecStore  the record store: direct and batched writes, TxnBegin,     *)
(*              TxnCommit, ScanBatch, Close.                               *)
(*   SpecOpen   CTxDB::CTxDB and init_blockindex: first open, schema       *)
(*              migration, reopen on the existing handle.                  *)
(*   SpecShare  two CTxDB objects on the one process-wide handle.          *)
(*   SpecSel    the checkpoint selection of LoadBlockIndex on its own,     *)
(*              over block counts around the margin.                       *)
(*   Spec       CTxDB::LoadBlockIndex: count pass, checkpoint selection,   *)
(*              load pass, chain trust, tip resolution, validation walk    *)
(*              and repair, with the shutdown flag set at any moment.      *)
(*   SpecChain  LoadBlockIndex with the default options on a chain of a    *)
(*              genesis block and ten blocks, whole or with one record     *)
(*              missing.                                                   *)
(***************************************************************************)
EXTENDS Integers, Sequences, FiniteSets, TLC

(***************************************************************************)
(* Bounds of the model.                                                    *)
(***************************************************************************)
\* Values a record may hold are 1..MaxVal; 0 stands for "no record".
MaxVal == 2
\* Largest number of operations buffered in one WriteBatch.
MaxBatch == 3
\* Block hashes with a record of their own are 1..MaxHash (0 is the zero
\* hash); MaxHash + 1 is a hash that is only ever referenced.
MaxHash == 3
\* Largest block-index record count the checkpoint selection is tried on.
MaxBlocks == 260
\* Most transactions the walk reads from one block, most spent markers it
\* reads from one transaction index, most inputs of one transaction.
MaxTx == 2
MaxOut == 1
MaxIn == 1
\* Most block files on disk.
MaxFiles == 2
\* Blocks of the chain of the end-to-end loads: the genesis block and ten
\* more.
ChainLen == 11

(***************************************************************************)
(* State of the record store (one CTxDB instance and the global handle).   *)
(***************************************************************************)
VARIABLES
    db,           \* contents of the LevelDB store: key -> value, 0 = absent
    txdb,         \* the process-wide handle `leveldb::DB *txdb` (0 = NULL)
    pdb,          \* this instance's handle (0 = NULL)
    heap,         \* live leveldb::WriteBatch objects: id -> buffered operations
    activeBatch,  \* this instance's activeBatch pointer (0 = NULL)
    spc,          \* "run", "abort" (a failed assert) or "segv" (NULL handle used)
    last          \* the last call made on the instance and what it returned

storeVars == <<db, txdb, pdb, heap, activeBatch, spc, last>>

(***************************************************************************)
(* What CTxDB::CTxDB finds on disk and leaves there, besides the records   *)
(* of db.                                                                  *)
(***************************************************************************)
VARIABLES
    dbExists,     \* whether the txleveldb directory holds a database
    version,      \* the "version" record (0 = absent)
    blkFiles,     \* the numbers n of the block files blk000n.dat present
    fReadOnly     \* this instance's fReadOnly

diskVars == <<dbExists, version, blkFiles, fReadOnly>>

(***************************************************************************)
(* A second CTxDB object of the process, such as the `CTxDB txdb;` that    *)
(* LoadBlockIndex constructs for its reorg while the caller's is in use.   *)
(***************************************************************************)
VARIABLES
    liveOther,         \* whether the second instance has been constructed
    pdbOther,          \* its handle (0 = NULL)
    activeBatchOther   \* its activeBatch pointer (0 = NULL)

otherVars == <<liveOther, pdbOther, activeBatchOther>>

(***************************************************************************)
(* State of CTxDB::LoadBlockIndex: the persisted input, the globals it     *)
(* fills and its local variables.                                          *)
(***************************************************************************)
VARIABLES
    store,              \* the "blockindex" records: block hash -> record
    tailKeys,           \* whether keys of a later tag follow the records
    mapCheckpoints,     \* the heights of the checkpoint table
    nCheckLevel,        \* -checklevel
    nCheckBlocks,       \* -checkblocks
    fRequestShutdown,   \* the process-wide shutdown flag
    pc,                 \* where LoadBlockIndex stands
    it,                 \* position of the iterator in use
    TotalNumBlocks,
    bestCheckpoint,
    vDiskBlockIndex,    \* the records streamed into memory
    idx,                \* the index i of the resolve loop
    nodes,              \* the CBlockIndex objects allocated, by address
    mapBlockIndex,      \* block hash -> address of its node
    pindexGenesisBlock,
    hashBestChain,
    pindexBest,
    nBestHeight,
    nBestChainTrust,
    ret,                \* what LoadBlockIndex returned: "none", "true", "error"
    nCheckDepth,        \* the depth the walk is cut at
    pindex,             \* the block the walk is at
    pindexFork,         \* the repair point
    mapBlockPos,        \* block position -> node, of the blocks visited
    txNo,               \* transactions of the block handled so far
    txHasIndex,         \* whether ReadTxIndex found the transaction at hand
    nOutput,            \* rounds of the inner loop (vSpent or vin) done
    setBestChain,       \* the node SetBestChain was invoked with (0 = not)
    visited,            \* history: the blocks the walk has read
    failed,             \* history: the visited blocks that failed a check
    lastFailed,         \* history: the block that failed a check last
    noIndex,            \* history: visited blocks with a transaction that
                        \* has no transaction-index record
    shutdownAt          \* history: the part of LoadBlockIndex that was
                        \* running when shutdown was requested ("none" if
                        \* it was not)

inputVars == <<store, tailKeys, mapCheckpoints, nCheckLevel, nCheckBlocks>>
loadVars == <<pc, it, TotalNumBlocks, bestCheckpoint, vDiskBlockIndex, idx, nodes,
              mapBlockIndex, pindexGenesisBlock, ret>>
tipVars == <<hashBestChain, pindexBest, nBestHeight, nBestChainTrust>>
walkVars == <<nCheckDepth, pindex, pindexFork, mapBlockPos, txNo, txHasIndex,
              nOutput, setBestChain>>
histVars == <<visited, failed, lastFailed, noIndex>>
shutdownVars == <<fRequestShutdown, shutdownAt>>
indexVars == <<inputVars, shutdownVars, loadVars, tipVars, walkVars, histVars>>

vars == <<storeVars, diskVars, otherVars, indexVars>>

\* The serialized keys the model writes: two of the scalar tags of the store.
Keys == {"hashBestChain", "hashSyncCheckpoint"}
Vals == 1 .. MaxVal
NULL == 0
\* What a lookup of a key without record finds.
NoVal == NULL

PutOp(k, v) == [op |-> "Put", key |-> k, val |-> v]
DelOp(k) == [op |-> "Delete", key |-> k, val |-> NoVal]
\* A call: its name and arguments, what it returned (ret), and for TxnCommit
\* the number of operations handed to the store (n) and the store's answer
\* (status).
Call(o, k, v, r) == [op |-> o, key |-> k, val |-> v, ret |-> r, n |-> 0, status |-> TRUE]
Commit(cnt, st, r) ==
    [op |-> "TxnCommit", key |-> "", val |-> NoVal, ret |-> r, n |-> cnt, status |-> st]

(***************************************************************************)
(* CBatchScanner: the WriteBatch::Handler that ScanBatch iterates with.    *)
(* A scanner is [foundEntry, deleted, foundValue]; needle is the key.      *)
(***************************************************************************)
CBatchScanner_Init == [foundEntry |-> FALSE, deleted |-> FALSE, foundValue |-> NoVal]

\* A Put handler that forgets to clear the deleted flag.
CBatchScanner_Put_KeepsDeleted(s, needle, key, value) ==
    IF key = needle
    THEN [s EXCEPT !.foundEntry = TRUE, !.foundValue = value]
    ELSE s

CBatchScanner_Put(s, needle, key, value) ==
    IF key = needle
    THEN [foundEntry |-> TRUE, deleted |-> FALSE, foundValue |-> value]
    ELSE s

\* A Delete handler that records the entry but not the deletion.
CBatchScanner_Delete_NoFlag(s, needle, key) ==
    IF key = needle
    THEN [s EXCEPT !.foundEntry = TRUE]
    ELSE s

CBatchScanner_Delete(s, needle, key) ==
    IF key = needle
    THEN [s EXCEPT !.foundEntry = TRUE, !.deleted = TRUE]
    ELSE s

\* WriteBatch::Iterate: the handler sees the operations in the order they
\* were buffered.
RECURSIVE Iterate(_, _, _)
Iterate(ops, needle, s) ==
    IF ops = <<>>
    THEN s
    ELSE LET o == Head(ops)
             s1 == IF o.op = "Put"
                   THEN CBatchScanner_Put(s, needle, o.key, o.val)
                   ELSE CBatchScanner_Delete(s, needle, o.key)
         IN Iterate(Tail(ops), needle, s1)

\* CTxDB::ScanBatch(key, value, deleted): *deleted starts false, the value
\* is whatever the last matching Put left; the result is scanner.foundEntry.
ScanBatch(k) == Iterate(heap[activeBatch], k, CBatchScanner_Init)

(***************************************************************************)
(* The typed accessors of the header (txdb-leveldb.h is not among the      *)
(* sources; these follow the Record Store contract).                       *)
(***************************************************************************)
\* read(key): the batch first, then the store.  NoVal = NotFound.
Read(k) ==
    IF activeBatch # NULL
    THEN LET s == ScanBatch(k)
         IN IF s.deleted THEN NoVal
            ELSE IF s.foundEntry THEN s.foundValue
            ELSE db[k]
    ELSE db[k]

\* exists(key)
Exists(k) ==
    IF activeBatch # NULL
    THEN LET s == ScanBatch(k)
         IN IF s.foundEntry THEN ~s.deleted ELSE db[k] # NoVal
    ELSE db[k] # NoVal

\* leveldb::DB::Write(batch): every buffered operation, in order, at once.
RECURSIVE ApplyBatch(_, _)
ApplyBatch(d, ops) ==
    IF ops = <<>>
    THEN d
    ELSE LET o == Head(ops)
         IN ApplyBatch([d EXCEPT ![o.key] = o.val], Tail(ops))

\* operator new: the lowest address that is not in use.
NewBatch == CHOOSE b \in 1 .. (Cardinality(DOMAIN heap) + 1) : b \notin DOMAIN heap
Free(h, b) == [x \in (DOMAIN h) \ {b} |-> h[x]]

(***************************************************************************)
(* Operations of CTxDB.                                                    *)
(***************************************************************************)
\* write(key, value): buffered while a batch is open, else put in the store.
Write(k, v) ==
    /\ spc = "run"
    /\ IF activeBatch # NULL
       THEN /\ Len(heap[activeBatch]) < MaxBatch
            /\ heap' = [heap EXCEPT ![activeBatch] = Append(@, PutOp(k, v))]
            /\ last' = Call("Write", k, v, TRUE)
            /\ UNCHANGED <<db, spc>>
       ELSE IF pdb = NULL
       THEN /\ spc' = "segv"
            /\ last' = Call("Write", k, v, FALSE)
            /\ UNCHANGED <<db, heap>>
       ELSE /\ db' = [db EXCEPT ![k] = v]
            /\ last' = Call("Write", k, v, TRUE)
            /\ UNCHANGED <<heap, spc>>
    /\ UNCHANGED <<txdb, pdb, activeBatch>>

\* erase(key)
Erase(k) ==
    /\ spc = "run"
    /\ IF activeBatch # NULL
       THEN /\ Len(heap[activeBatch]) < MaxBatch
            /\ heap' = [heap EXCEPT ![activeBatch] = Append(@, DelOp(k))]
            /\ last' = Call("Erase", k, NoVal, TRUE)
            /\ UNCHANGED <<db, spc>>
       ELSE IF pdb = NULL
       THEN /\ spc' = "segv"
            /\ last' = Call("Erase", k, NoVal, FALSE)
            /\ UNCHANGED <<db, heap>>
       ELSE /\ db' = [db EXCEPT ![k] = NoVal]
            /\ last' = Call("Erase", k, NoVal, TRUE)
            /\ UNCHANGED <<heap, spc>>
    /\ UNCHANGED <<txdb, pdb, activeBatch>>

\* A TxnBegin without its assert: the open batch is overwritten and leaks.
TxnBegin_NoAssert ==
    /\ spc = "run"
    /\ heap' = heap @@ (NewBatch :> <<>>)
    /\ activeBatch' = NewBatch
    /\ last' = Call("TxnBegin", "", NoVal, TRUE)
    /\ UNCHANGED <<db, txdb, pdb, spc>>

\* CTxDB::TxnBegin
TxnBegin ==
    /\ spc = "run"
    /\ IF activeBatch # NULL
       THEN \* assert(!activeBatch)
            /\ spc' = "abort"
            /\ last' = Call("TxnBegin", "", NoVal, FALSE)
            /\ UNCHANGED <<heap, activeBatch>>
       ELSE /\ heap' = heap @@ (NewBatch :> <<>>)
            /\ activeBatch' = NewBatch
            /\ last' = Call("TxnBegin", "", NoVal, TRUE)
            /\ UNCHANGED spc
    /\ UNCHANGED <<db, txdb, pdb>>

\* A TxnCommit that drops the batch without handing it to the store.
TxnCommit_NoFlush ==
    /\ spc = "run"
    /\ activeBatch # NULL
    /\ pdb # NULL
    /\ heap' = Free(heap, activeBatch)
    /\ activeBatch' = NULL
    /\ last' = Commit(Len(heap[activeBatch]), TRUE, TRUE)
    /\ UNCHANGED <<db, txdb, pdb, spc>>

\* A TxnCommit that returns on failure before the batch is deleted.
TxnCommit_KeepsFailedBatch ==
    /\ spc = "run"
    /\ activeBatch # NULL
    /\ pdb # NULL
    /\ \E ok \in BOOLEAN :
          /\ db' = IF ok THEN ApplyBatch(db, heap[activeBatch]) ELSE db
          /\ heap' = IF ok THEN Free(heap, activeBatch) ELSE heap
          /\ activeBatch' = IF ok THEN NULL ELSE activeBatch
          /\ last' = Commit(Len(heap[activeBatch]), ok, ok)
    /\ UNCHANGED <<txdb, pdb, spc>>

\* CTxDB::TxnCommit
TxnCommit ==
    /\ spc = "run"
    /\ IF activeBatch = NULL
       THEN \* assert(activeBatch)
            /\ spc' = "abort"
            /\ last' = Call("TxnCommit", "", NoVal, FALSE)
            /\ UNCHANGED <<db, heap, activeBatch>>
       ELSE IF pdb = NULL
       THEN \* pdb->Write through the NULL handle Close left
            /\ spc' = "segv"
            /\ last' = Call("TxnCommit", "", NoVal, FALSE)
            /\ UNCHANGED <<db, heap, activeBatch>>
       ELSE \E ok \in BOOLEAN :
            \* status = pdb->Write(...): the store accepts the batch or not
            /\ db' = IF ok THEN ApplyBatch(db, heap[activeBatch]) ELSE db
            /\ heap' = Free(heap, activeBatch)
            /\ activeBatch' = NULL
            /\ last' = Commit(Len(heap[activeBatch]), ok, ok)
            /\ UNCHANGED spc
    /\ UNCHANGED <<txdb, pdb>>

\* CTxDB::Close
Close ==
    /\ spc = "run"
    /\ txdb' = NULL
    /\ pdb' = NULL
    /\ heap' = IF activeBatch # NULL THEN Free(heap, activeBatch) ELSE heap
    /\ activeBatch' = NULL
    /\ last' = Call("Close", "", NoVal, TRUE)
    /\ UNCHANGED <<db, spc>>

\* The instance right after CTxDB::CTxDB found or opened the store.
InitStore ==
    /\ db \in [Keys -> {NoVal} \cup Vals]
    /\ txdb = 1
    /\ pdb = 1
    /\ heap = <<>>
    /\ activeBatch = NULL
    /\ spc = "run"
    /\ last = Call("CTxDB", "", NoVal, TRUE)

\* The store as a load finds it: open, nothing buffered.
IdleStore ==
    /\ db = [k \in Keys |-> NoVal]
    /\ txdb = 1
    /\ pdb = 1
    /\ heap = <<>>
    /\ activeBatch = NULL
    /\ spc = "run"
    /\ last = Call("CTxDB", "", NoVal, TRUE)

(***************************************************************************)
(* CTxDB::CTxDB and init_blockindex.                                       *)
(***************************************************************************)
\* DATABASE_VERSION (txdb-leveldb.h is not among the sources): the versions
\* a store may carry are those below it, itself and one above.
DATABASE_VERSION == 2
Versions == 1 .. (DATABASE_VERSION + 1)
\* pszMode: whether it holds 'c', and whether it holds '+' or 'w'.
Modes == [c : BOOLEAN, w : BOOLEAN]
NoRecords == [k \in Keys |-> NoVal]
\* The constructor's call record; ret tells whether it returned (TRUE) or
\* threw (FALSE).
Ctor(mode, r) == [op |-> "CTxDB", key |-> "", val |-> NoVal, ret |-> r, n |-> 0,
                  status |-> r, mode |-> mode]

\* The loop of init_blockindex that removes blk0001.dat, blk0002.dat, ...
\* up to the first number without a file: the files left from nFile on.
RECURSIVE RemoveBlockFiles(_, _)
RemoveBlockFiles(files, nFile) ==
    IF nFile \notin files
    THEN files
    ELSE RemoveBlockFiles(files \ {nFile}, nFile + 1)

\* leveldb::DB::Open with options.create_if_missing = fCreate: it opens the
\* database there is, creates one if told to, and fails otherwise.
OpenOK(exists, fCreate) == exists \/ fCreate

\* A constructor that opens the store again whether or not the handle
\* exists.
CTxDB_AlwaysOpens(mode) == FALSE

\* Whether the constructor takes the handle there is and returns.
CTxDB_Reuses(mode) == txdb # NULL

\* nVersion < DATABASE_VERSION: the handle is deleted, init_blockindex
\* removes the directory and the block files and opens the store again, and
\* the version is written.
Migrate(mode) ==
    /\ blkFiles' = RemoveBlockFiles(blkFiles, 1)
    /\ db' = NoRecords
    /\ IF OpenOK(FALSE, mode.c)
       THEN /\ dbExists' = TRUE
            /\ txdb' = 1 /\ pdb' = 1
            /\ version' = DATABASE_VERSION
            /\ spc' = "run"
            /\ last' = Ctor(mode, TRUE)
       ELSE \* init_blockindex throws runtime_error
            /\ dbExists' = FALSE
            /\ txdb' = NULL /\ pdb' = NULL
            /\ version' = 0
            /\ spc' = "throw"
            /\ last' = Ctor(mode, FALSE)

\* CTxDB::CTxDB(pszMode), for a new instance.
CTxDB(mode) ==
    /\ spc \in {"new", "run"}
    /\ activeBatch = NULL
    /\ activeBatch' = NULL
    /\ fReadOnly' = ~mode.w
    /\ UNCHANGED heap
    /\ IF CTxDB_Reuses(mode)
       THEN /\ pdb' = txdb
            /\ spc' = "run"
            /\ last' = Ctor(mode, TRUE)
            /\ UNCHANGED <<db, txdb, dbExists, version, blkFiles>>
       ELSE IF ~OpenOK(dbExists, mode.c)
       THEN \* init_blockindex throws runtime_error
            /\ spc' = "throw"
            /\ pdb' = NULL
            /\ last' = Ctor(mode, FALSE)
            /\ UNCHANGED <<db, txdb, dbExists, version, blkFiles>>
       ELSE IF version # 0
       THEN IF version < DATABASE_VERSION
            THEN Migrate(mode)
            ELSE /\ txdb' = 1 /\ pdb' = 1
                 /\ spc' = "run"
                 /\ last' = Ctor(mode, TRUE)
                 /\ dbExists' = TRUE
                 /\ UNCHANGED <<db, version, blkFiles>>
       ELSE /\ txdb' = 1 /\ pdb' = 1
            /\ spc' = "run"
            /\ last' = Ctor(mode, TRUE)
            /\ dbExists' = TRUE
            /\ version' = IF mode.c THEN DATABASE_VERSION ELSE version
            /\ UNCHANGED <<db, blkFiles>>

\* The disk as the other specifications take it: a store of the current
\* version, opened for writing.
IdleDisk ==
    /\ dbExists = TRUE
    /\ version = DATABASE_VERSION
    /\ blkFiles = {}
    /\ fReadOnly = FALSE

\* A process about to construct its first instance: the disk holds no
\* database, or one with any records and a version record of any version or
\* none, and the block files written so far.
InitOpen ==
    /\ txdb = NULL
    /\ pdb = NULL
    /\ heap = <<>>
    /\ activeBatch = NULL
    /\ spc = "new"
    /\ last = Call("", "", NoVal, TRUE)
    /\ fReadOnly = FALSE
    /\ dbExists \in BOOLEAN
    /\ db \in [Keys -> {NoVal} \cup Vals]
    /\ version \in {0} \cup Versions
    /\ ~dbExists => (db = NoRecords /\ version = 0)
    /\ \E n \in 0 .. MaxFiles : blkFiles = 1 .. n

\* CTxDB::CTxDB for the second instance, constructed while the handle is
\* open: it takes the handle there is and returns.
OtherCTxDB ==
    /\ spc = "run"
    /\ ~liveOther
    /\ txdb # NULL
    /\ liveOther' = TRUE
    /\ activeBatchOther' = NULL
    /\ pdbOther' = txdb
    /\ UNCHANGED storeVars

\* CTxDB::TxnBegin on the second instance.
OtherTxnBegin ==
    /\ spc = "run"
    /\ liveOther
    /\ IF activeBatchOther # NULL
       THEN \* assert(!activeBatch)
            /\ spc' = "abort"
            /\ UNCHANGED <<heap, activeBatchOther>>
       ELSE /\ heap' = heap @@ (NewBatch :> <<>>)
            /\ activeBatchOther' = NewBatch
            /\ UNCHANGED spc
    /\ UNCHANGED <<db, txdb, pdb, activeBatch, last, liveOther, pdbOther>>

\* No second instance.
IdleOther ==
    /\ liveOther = FALSE
    /\ pdbOther = NULL
    /\ activeBatchOther = NULL

(***************************************************************************)
(* The block index: records, nodes and the graph.                          *)
(***************************************************************************)
Hashes == 1 .. MaxHash
\* hashGenesisBlock
GenesisHash == 1
\* -checklevel (default 1) and -checkblocks (default 2500)
DefaultCheckLevel == 1
DefaultCheckBlocks == 2500
Unbounded == 1000000000
CheckLevels == 0 .. 7
CheckBlocks == {0, 1, 2, DefaultCheckBlocks}
\* The margin of the checkpoint selection.
Margin == 250
\* unsigned int: the value x mod 2^32 of an int expression, kept as two
\* 16-bit halves, and the comparison of two such values.
Half == 65536
U32(x) == [hi |-> (Half + (x \div Half)) % Half, lo |-> x % Half]
U32Less(u, v) == u.hi < v.hi \/ (u.hi = v.hi /\ u.lo < v.lo)

\* A CDiskBlockIndex as stored.  The block sits at position nBlockPos of the
\* block file; nBits stands for the header fields GetBlockTrust reads.
DiskIndex(h, prev, next, height) ==
    [hash |-> h, hashPrev |-> prev, hashNext |-> next, nHeight |-> height,
     nBlockPos |-> h, nBits |-> h]

\* The record block h has in a chain 1 <- 2 <- ... <- n.
ChainRecord(h, n) == DiskIndex(h, h - 1, IF h < n THEN h + 1 ELSE 0, h - 1)

\* Well-formed chains of up to MaxHash blocks over the genesis block, whole
\* or with some records missing.
ChainStores ==
    {[h \in D |-> ChainRecord(h, n)] : n \in Hashes, D \in SUBSET Hashes} \ {<<>>}

\* Records as a damaged or foreign store may hold them: each hash has no
\* record, or one that names a neighbouring hash as predecessor, none or the
\* next hash as successor, and its chain height or height 0.
RecordsOf(h) ==
    {DiskIndex(h, prev, next, height) :
        prev \in {h - 1, h + 1}, next \in {0, h + 1}, height \in {h - 1, 0}}
AnyStores ==
    UNION {[D -> UNION {RecordsOf(h) : h \in D}] : D \in SUBSET Hashes}
GeneralStores == {s \in AnyStores : \A h \in DOMAIN s : s[h].hash = h}

\* CBlockIndex::CBlockIndex(): a node as InsertBlockIndex creates it.
NewNode(h) ==
    [phashBlock |-> h, pprev |-> NULL, pnext |-> NULL, nHeight |-> 0,
     nBlockPos |-> 0, nBits |-> 0, nChainTrust |-> 0]

\* CBlockIndex::GetBlockTrust (main.cpp, not among the sources): the node's
\* own contribution, a function of its header fields; 0 for an empty node.
GetBlockTrust(n) == n.nBits

\* The graph: the nodes allocated and the map from hash to node.
Graph(ns, m) == [nodes |-> ns, map |-> m]

\* An InsertBlockIndex that never looks the hash up: it allocates a node
\* each time; map::insert keeps the entry a hash already has.
InsertBlockIndex_NoFind(g, hash) ==
    IF hash = 0
    THEN [g |-> g, p |-> NULL]
    ELSE LET p == Len(g.nodes) + 1
         IN [g |-> Graph(Append(g.nodes, NewNode(hash)),
                         IF hash \in DOMAIN g.map
                         THEN g.map
                         ELSE g.map @@ (hash :> p)),
             p |-> p]

\* InsertBlockIndex(hash): the node of the hash, created if it has none.
InsertBlockIndex(g, hash) ==
    IF hash = 0
    THEN [g |-> g, p |-> NULL]
    ELSE IF hash \in DOMAIN g.map
    THEN [g |-> g, p |-> g.map[hash]]
    ELSE LET p == Len(g.nodes) + 1
         IN [g |-> Graph(Append(g.nodes, NewNode(hash)), g.map @@ (hash :> p)),
             p |-> p]

\* The keys the iterator runs over from ("blockindex", 0) on: the records in
\* hash order, then the first key of a later tag if there is one.
StoredHashes == DOMAIN store
RECURSIVE SortedSeq(_)
SortedSeq(S) ==
    IF S = {}
    THEN <<>>
    ELSE LET m == CHOOSE x \in S : \A y \in S : x <= y
         IN <<m>> \o SortedSeq(S \ {m})
RecordKeys == SortedSeq(StoredHashes)
NumKeys == Len(RecordKeys) + (IF tailKeys THEN 1 ELSE 0)
Valid(pos) == pos <= NumKeys
IsBlockIndexKey(pos) == pos <= Len(RecordKeys)

(***************************************************************************)
(* CTxDB::LoadBlockIndex, step by step.                                    *)
(***************************************************************************)
\* Where LoadBlockIndex is while it loads, and while it walks.
LoadPcs == {"count", "select", "stream", "resolve"}
WalkPcs == {"walk", "tx", "spent", "vin"}
\* The part of LoadBlockIndex that is running: the count pass, the
\* validation walk, or another part.
Phase ==
    IF pc = "count" THEN "count"
    ELSE IF pc \in WalkPcs THEN "walk"
    ELSE "other"

\* Another thread asks for shutdown.
RequestShutdown ==
    /\ ~fRequestShutdown
    /\ pc # "done"
    /\ fRequestShutdown' = TRUE
    /\ shutdownAt' = Phase
    /\ UNCHANGED <<inputVars, loadVars, tipVars, walkVars, histVars>>

\* One round of the count loop.
CountStep ==
    /\ pc = "count"
    /\ IF ~Valid(it)
       THEN /\ pc' = "select"
            /\ UNCHANGED <<it, TotalNumBlocks>>
       ELSE /\ TotalNumBlocks' = TotalNumBlocks + 1
            /\ IF fRequestShutdown \/ ~IsBlockIndexKey(it)
               THEN pc' = "select" /\ it' = it
               ELSE pc' = "count" /\ it' = it + 1
    /\ UNCHANGED <<inputVars, shutdownVars, bestCheckpoint, vDiskBlockIndex,
                   idx, nodes, mapBlockIndex, pindexGenesisBlock, ret, tipVars, walkVars, histVars>>

\* The loop over mapCheckpoints, in ascending height: [N, best] after the
\* checkpoints of cps.
RECURSIVE SelectLoop(_, _, _)
SelectLoop(cps, N, best) ==
    IF cps = <<>>
    THEN [TotalNumBlocks |-> N, bestCheckpoint |-> best]
    ELSE LET currentBest == Head(cps)
             \* TotalNumBlocks - 250 < 0, in unsigned int
             N1 == IF U32Less(U32(N - Margin), U32(0)) THEN 0 ELSE N
             best1 == IF U32Less(U32(currentBest), U32(N1))
                      THEN currentBest
                      ELSE best
         IN SelectLoop(Tail(cps), N1, best1)

\* The checkpoint selection.
Select ==
    /\ pc = "select"
    /\ LET r == SelectLoop(SortedSeq(mapCheckpoints), TotalNumBlocks, 0)
       IN /\ TotalNumBlocks' = r.TotalNumBlocks
          /\ bestCheckpoint' = r.bestCheckpoint
    /\ pc' = "stream"
    /\ it' = 1
    /\ UNCHANGED <<inputVars, shutdownVars, vDiskBlockIndex, idx, nodes,
                   mapBlockIndex, pindexGenesisBlock, ret, tipVars, walkVars, histVars>>

\* One round of the loop that streams the records into vDiskBlockIndex.
StreamStep ==
    /\ pc = "stream"
    /\ IF ~Valid(it) \/ fRequestShutdown \/ ~IsBlockIndexKey(it)
       THEN /\ pc' = "resolve"
            /\ idx' = 1
            /\ UNCHANGED <<it, vDiskBlockIndex>>
       ELSE /\ vDiskBlockIndex' = Append(vDiskBlockIndex, store[RecordKeys[it]])
            /\ it' = it + 1
            /\ UNCHANGED <<pc, idx>>
    /\ UNCHANGED <<inputVars, shutdownVars, TotalNumBlocks, bestCheckpoint,
                   nodes, mapBlockIndex, pindexGenesisBlock, ret, tipVars, walkVars, histVars>>

\* A resolve loop that also gives the predecessor's node the height below
\* the record's.
ResolveRecord_FillsPrev(g, diskindex) ==
    LET r1 == InsertBlockIndex(g, diskindex.hash)
        r2 == InsertBlockIndex(r1.g, diskindex.hashPrev)
        r3 == InsertBlockIndex(r2.g, diskindex.hashNext)
        pindexNew == r1.p
        filled == [r3.g.nodes EXCEPT ![pindexNew] =
                      [@ EXCEPT !.pprev = r2.p,
                                !.pnext = r3.p,
                                !.nBlockPos = diskindex.nBlockPos,
                                !.nHeight = diskindex.nHeight,
                                !.nBits = diskindex.nBits]]
    IN [g |-> Graph(IF r2.p = NULL
                    THEN filled
                    ELSE [filled EXCEPT ![r2.p].nHeight = diskindex.nHeight - 1],
                    r3.g.map),
        p |-> pindexNew]

\* The body of the resolve loop for one record, but for the genesis watch:
\* the graph after it and the record's node.
ResolveRecord(g, diskindex) ==
    LET r1 == InsertBlockIndex(g, diskindex.hash)
        r2 == InsertBlockIndex(r1.g, diskindex.hashPrev)
        r3 == InsertBlockIndex(r2.g, diskindex.hashNext)
        pindexNew == r1.p
    IN [g |-> Graph([r3.g.nodes EXCEPT ![pindexNew] =
                        [@ EXCEPT !.pprev = r2.p,
                                  !.pnext = r3.p,
                                  !.nBlockPos = diskindex.nBlockPos,
                                  !.nHeight = diskindex.nHeight,
                                  !.nBits = diskindex.nBits]],
                    r3.g.map),
        p |-> pindexNew]

\* One round of the loop that turns the records into nodes.
ResolveStep ==
    /\ pc = "resolve"
    /\ idx <= Len(vDiskBlockIndex)
    /\ LET diskindex == vDiskBlockIndex[idx]
           blockHash == diskindex.hash
           r == ResolveRecord(Graph(nodes, mapBlockIndex), diskindex)
           pindexNew == r.p
       IN /\ nodes' = r.g.nodes
          /\ mapBlockIndex' = r.g.map
          /\ pindexGenesisBlock' =
                IF pindexGenesisBlock = NULL /\ blockHash = GenesisHash
                THEN pindexNew
                ELSE pindexGenesisBlock
    /\ idx' = idx + 1
    /\ UNCHANGED <<inputVars, shutdownVars, pc, it, TotalNumBlocks,
                   bestCheckpoint, vDiskBlockIndex, ret, tipVars, walkVars, histVars>>

\* A load that goes on to the trust calculation whatever the flag says.
LoadEnd_NoShutdownTest ==
    /\ pc = "resolve"
    /\ idx > Len(vDiskBlockIndex)
    /\ vDiskBlockIndex' = <<>>
    /\ pc' = "trust" /\ ret' = ret
    /\ UNCHANGED <<inputVars, shutdownVars, it, TotalNumBlocks,
                   bestCheckpoint, idx, nodes, mapBlockIndex, pindexGenesisBlock,
                   tipVars, walkVars, histVars>>

\* After the loops: if (fRequestShutdown) return true.
LoadEnd ==
    /\ pc = "resolve"
    /\ idx > Len(vDiskBlockIndex)
    /\ vDiskBlockIndex' = <<>>
    /\ IF fRequestShutdown
       THEN pc' = "done" /\ ret' = "true"
       ELSE pc' = "trust" /\ ret' = ret
    /\ UNCHANGED <<inputVars, shutdownVars, it, TotalNumBlocks,
                   bestCheckpoint, idx, nodes, mapBlockIndex, pindexGenesisBlock,
                   tipVars, walkVars, histVars>>

\* The nodes of the map in an order sort() may leave them in: by height, and
\* by address (which the allocator decides) among equal heights.
MapNodes == {mapBlockIndex[h] : h \in DOMAIN mapBlockIndex}
\* The nodes of the map in any order: no sort.
SortedByHeight_NoSort ==
    {o \in [1 .. Cardinality(MapNodes) -> MapNodes] :
        \A a, b \in DOMAIN o : a # b => o[a] # o[b]}
\* The sequences that hold each node of S once, in ascending height.
RECURSIVE AscendingOrders(_)
AscendingOrders(S) ==
    IF S = {}
    THEN {<<>>}
    ELSE LET lowest == {p \in S : \A q \in S : nodes[p].nHeight <= nodes[q].nHeight}
         IN UNION {{<<p>> \o o : o \in AscendingOrders(S \ {p})} : p \in lowest}
SortedByHeight == AscendingOrders(MapNodes)

\* A pass that takes nChainTrust to be the node's own trust.
RECURSIVE TrustPass_NoPrev(_, _)
TrustPass_NoPrev(ns, order) ==
    IF order = <<>>
    THEN ns
    ELSE LET p == Head(order)
         IN TrustPass_NoPrev(
                [ns EXCEPT ![p].nChainTrust = GetBlockTrust(ns[p])], Tail(order))

\* The pass over vSortedByHeight that sets nChainTrust.
RECURSIVE TrustPass(_, _)
TrustPass(ns, order) ==
    IF order = <<>>
    THEN ns
    ELSE LET p == Head(order)
             prevTrust == IF ns[p].pprev # NULL
                          THEN ns[ns[p].pprev].nChainTrust
                          ELSE 0
         IN TrustPass([ns EXCEPT ![p].nChainTrust = prevTrust + GetBlockTrust(ns[p])],
                      Tail(order))

\* Calculate nChainTrust.
CalcTrust ==
    /\ pc = "trust"
    /\ \E order \in SortedByHeight : nodes' = TrustPass(nodes, order)
    /\ pc' = "tip"
    /\ UNCHANGED <<inputVars, shutdownVars, it, TotalNumBlocks, bestCheckpoint,
                   vDiskBlockIndex, idx, mapBlockIndex, pindexGenesisBlock, ret,
                   tipVars, walkVars, histVars>>

\* What the read of the hashBestChain record may give: 0 stands for a
\* failed read; else the hash of a record, or one without record.
TipHashes == (0 .. (MaxHash + 1)) \cup DOMAIN store

\* A tip resolution for which a failed read is an error in any case.
ResolveTip_UnreadIsError ==
    /\ pc = "tip"
    /\ \E rec \in (IF tailKeys THEN TipHashes ELSE {0}) :
          IF rec = 0
          THEN /\ pc' = "done"
               /\ ret' = "error"
               /\ UNCHANGED tipVars
          ELSE /\ hashBestChain' = rec
               /\ IF rec \notin DOMAIN mapBlockIndex
                  THEN /\ pc' = "done"
                       /\ ret' = "error"
                       /\ UNCHANGED <<pindexBest, nBestHeight, nBestChainTrust>>
                  ELSE /\ pindexBest' = mapBlockIndex[rec]
                       /\ nBestHeight' = nodes[mapBlockIndex[rec]].nHeight
                       /\ nBestChainTrust' = nodes[mapBlockIndex[rec]].nChainTrust
                       /\ pc' = "sync"
                       /\ ret' = ret
    /\ UNCHANGED <<inputVars, shutdownVars, it, TotalNumBlocks, bestCheckpoint,
                   vDiskBlockIndex, idx, nodes, mapBlockIndex, pindexGenesisBlock,
                   walkVars, histVars>>

\* A tip resolution that leaves nBestHeight as it is.
ResolveTip_KeepsHeight ==
    /\ pc = "tip"
    /\ \E rec \in (IF tailKeys THEN TipHashes ELSE {0}) :
          IF rec = 0
          THEN /\ pc' = "done"
               /\ ret' = IF pindexGenesisBlock = NULL THEN "true" ELSE "error"
               /\ UNCHANGED tipVars
          ELSE /\ hashBestChain' = rec
               /\ IF rec \notin DOMAIN mapBlockIndex
                  THEN /\ pc' = "done"
                       /\ ret' = "error"
                       /\ UNCHANGED <<pindexBest, nBestHeight, nBestChainTrust>>
                  ELSE /\ pindexBest' = mapBlockIndex[rec]
                       /\ nBestHeight' = nBestHeight
                       /\ nBestChainTrust' = nodes[mapBlockIndex[rec]].nChainTrust
                       /\ pc' = "sync"
                       /\ ret' = ret
    /\ UNCHANGED <<inputVars, shutdownVars, it, TotalNumBlocks, bestCheckpoint,
                   vDiskBlockIndex, idx, nodes, mapBlockIndex, pindexGenesisBlock,
                   walkVars, histVars>>

\* Load hashBestChain: the record is read from the store; rec = 0 stands
\* for a failed read.
ResolveTip ==
    /\ pc = "tip"
    /\ \E rec \in (IF tailKeys THEN TipHashes ELSE {0}) :
          IF rec = 0
          THEN /\ pc' = "done"
               /\ ret' = IF pindexGenesisBlock = NULL THEN "true" ELSE "error"
               /\ UNCHANGED tipVars
          ELSE /\ hashBestChain' = rec
               /\ IF rec \notin DOMAIN mapBlockIndex
                  THEN /\ pc' = "done"
                       /\ ret' = "error"
                       /\ UNCHANGED <<pindexBest, nBestHeight, nBestChainTrust>>
                  ELSE /\ pindexBest' = mapBlockIndex[rec]
                       /\ nBestHeight' = nodes[mapBlockIndex[rec]].nHeight
                       /\ nBestChainTrust' = nodes[mapBlockIndex[rec]].nChainTrust
                       /\ pc' = "sync"
                       /\ ret' = ret
    /\ UNCHANGED <<inputVars, shutdownVars, it, TotalNumBlocks, bestCheckpoint,
                   vDiskBlockIndex, idx, nodes, mapBlockIndex, pindexGenesisBlock,
                   walkVars, histVars>>

\* The sync checkpoint is written and read back (Checkpoints, not among
\* the sources: either may fail), bnBestInvalidTrust is read, and the walk
\* is set up.
SyncCheckpoint ==
    /\ pc = "sync"
    /\ \E written, loaded \in BOOLEAN :
          IF ~written \/ ~loaded
          THEN /\ pc' = "done"
               /\ ret' = "error"
               /\ UNCHANGED <<nCheckDepth, pindex>>
          ELSE /\ pc' = "walk"
               /\ ret' = ret
               /\ LET d == IF nCheckBlocks = 0 THEN Unbounded ELSE nCheckBlocks
                  IN nCheckDepth' = IF d > nBestHeight THEN nBestHeight ELSE d
               /\ pindex' = pindexBest
    /\ pindexFork' = NULL
    /\ mapBlockPos' = <<>>
    /\ UNCHANGED <<inputVars, shutdownVars, it, TotalNumBlocks, bestCheckpoint,
                   vDiskBlockIndex, idx, nodes, mapBlockIndex, pindexGenesisBlock,
                   tipVars, txNo, txHasIndex, nOutput, setBestChain, histVars>>

\* A repair point that is only taken when none is set yet.
Fork_KeepsFirst(fail) ==
    IF fail /\ pindexFork = NULL THEN nodes[pindex].pprev ELSE pindexFork

\* pindexFork after a check of the block at hand: pindexFork = pindex->pprev
\* when the check failed.
Fork(fail) == IF fail THEN nodes[pindex].pprev ELSE pindexFork

\* The history of failures after a check of the block at hand.
NoteFailure(fail) ==
    /\ failed' = IF fail THEN failed \cup {pindex} ELSE failed
    /\ lastFailed' = IF fail THEN pindex ELSE lastFailed

\* The positions a spent marker may name: those of the blocks with a record
\* and one more, of a block off the chain.
Positions == 1 .. (MaxHash + 1)
NullPos == 0

\* A walk that a failed block read ends as a break does: the load goes on
\* to the reorg.
WalkBlock_ReadFailureBreaks ==
    /\ pc = "walk"
    /\ IF pindex = NULL \/ nodes[pindex].pprev = NULL
       THEN \* the loop's condition fails
            /\ pc' = "repair"
            /\ UNCHANGED <<ret, pindex, pindexFork, mapBlockPos, txNo, histVars>>
       ELSE IF fRequestShutdown \/ nodes[pindex].nHeight < nBestHeight - nCheckDepth
       THEN \* break
            /\ pc' = "repair"
            /\ UNCHANGED <<ret, pindex, pindexFork, mapBlockPos, txNo, histVars>>
       ELSE \E readOK, checkOK \in BOOLEAN :
            IF ~readOK
            THEN \* block.ReadFromDisk(pindex) failed
                 /\ pc' = "repair"
                 /\ ret' = ret
                 /\ UNCHANGED <<pindex, pindexFork, mapBlockPos, txNo, histVars>>
            ELSE LET fail == nCheckLevel > 0 /\ ~checkOK
                 IN /\ pindexFork' = Fork(fail)
                    /\ NoteFailure(fail)
                    /\ visited' = visited \cup {pindex}
                    /\ ret' = ret
                    /\ UNCHANGED noIndex
                    /\ IF nCheckLevel > 1
                       THEN /\ mapBlockPos' =
                                  [p \in DOMAIN mapBlockPos \cup {nodes[pindex].nBlockPos} |->
                                      IF p = nodes[pindex].nBlockPos
                                      THEN pindex
                                      ELSE mapBlockPos[p]]
                            /\ pc' = "tx"
                            /\ txNo' = 0
                            /\ pindex' = pindex
                       ELSE /\ pindex' = nodes[pindex].pprev
                            /\ pc' = "walk"
                            /\ UNCHANGED <<mapBlockPos, txNo>>
    /\ UNCHANGED <<inputVars, shutdownVars, it, TotalNumBlocks, bestCheckpoint,
                   vDiskBlockIndex, idx, nodes, mapBlockIndex, pindexGenesisBlock,
                   tipVars, nCheckDepth, txHasIndex, nOutput, setBestChain>>

\* The head of the walk's loop and what it does with the block itself.
WalkBlock ==
    /\ pc = "walk"
    /\ IF pindex = NULL \/ nodes[pindex].pprev = NULL
       THEN \* the loop's condition fails
            /\ pc' = "repair"
            /\ UNCHANGED <<ret, pindex, pindexFork, mapBlockPos, txNo, histVars>>
       ELSE IF fRequestShutdown \/ nodes[pindex].nHeight < nBestHeight - nCheckDepth
       THEN \* break
            /\ pc' = "repair"
            /\ UNCHANGED <<ret, pindex, pindexFork, mapBlockPos, txNo, histVars>>
       ELSE \E readOK, checkOK \in BOOLEAN :
            IF ~readOK
            THEN \* block.ReadFromDisk(pindex) failed
                 /\ pc' = "done"
                 /\ ret' = "error"
                 /\ UNCHANGED <<pindex, pindexFork, mapBlockPos, txNo, histVars>>
            ELSE LET fail == nCheckLevel > 0 /\ ~checkOK
                 IN /\ pindexFork' = Fork(fail)
                    /\ NoteFailure(fail)
                    /\ visited' = visited \cup {pindex}
                    /\ ret' = ret
                    /\ UNCHANGED noIndex
                    /\ IF nCheckLevel > 1
                       THEN /\ mapBlockPos' =
                                  [p \in DOMAIN mapBlockPos \cup {nodes[pindex].nBlockPos} |->
                                      IF p = nodes[pindex].nBlockPos
                                      THEN pindex
                                      ELSE mapBlockPos[p]]
                            /\ pc' = "tx"
                            /\ txNo' = 0
                            /\ pindex' = pindex
                       ELSE /\ pindex' = nodes[pindex].pprev
                            /\ pc' = "walk"
                            /\ UNCHANGED <<mapBlockPos, txNo>>
    /\ UNCHANGED <<inputVars, shutdownVars, it, TotalNumBlocks, bestCheckpoint,
                   vDiskBlockIndex, idx, nodes, mapBlockIndex, pindexGenesisBlock,
                   tipVars, nCheckDepth, txHasIndex, nOutput, setBestChain>>

\* Where the walk goes once the index of the transaction at hand is dealt
\* with (found), once its spent markers are ("spent"), once its inputs are.
AfterTxIndex(found) ==
    IF found /\ nCheckLevel > 3 THEN "spent"
    ELSE IF nCheckLevel > 4 THEN "vin"
    ELSE "tx"
AfterSpent == IF nCheckLevel > 4 THEN "vin" ELSE "tx"

\* One round of the loop over block.vtx, up to the transaction's index
\* record: the loop ends, or ReadTxIndex finds the record or not; a record
\* names the block's own position or another one (samePos), and the
\* transaction read from the position it names is unreadable, the same
\* transaction, or another one.
WalkTx ==
    /\ pc = "tx"
    /\ \/ \* no transaction left: on to pindex->pprev
          /\ pindex' = nodes[pindex].pprev
          /\ pc' = "walk"
          /\ UNCHANGED <<pindexFork, txNo, txHasIndex, nOutput, histVars>>
       \/ /\ txNo < MaxTx
          /\ txNo' = txNo + 1
          /\ nOutput' = 0
          /\ pindex' = pindex
          /\ UNCHANGED visited
          /\ \E r \in {[found |-> found,
                         fail |-> /\ found
                                  /\ (nCheckLevel > 2 \/ ~samePos)
                                  /\ txFound # "same"] :
                            found \in BOOLEAN, samePos \in BOOLEAN,
                            txFound \in {"unreadable", "same", "other"}} :
                /\ txHasIndex' = r.found
                /\ pc' = AfterTxIndex(r.found)
                /\ noIndex' = IF r.found THEN noIndex ELSE noIndex \cup {pindex}
                /\ pindexFork' = Fork(r.fail) /\ NoteFailure(r.fail)
    /\ UNCHANGED <<inputVars, shutdownVars, it, TotalNumBlocks, bestCheckpoint,
                   vDiskBlockIndex, idx, nodes, mapBlockIndex, pindexGenesisBlock,
                   ret, tipVars, nCheckDepth, mapBlockPos, setBestChain>>

\* A marker check that does not look the position up among the blocks
\* visited.
SpentFails_NoPositionTest(txpos, txSpend) ==
    /\ txpos # NullPos
    /\ nCheckLevel > 5 /\ txSpend # "spends"

\* Whether the spent marker txpos fails its checks: it is not null, and
\* names a position that is not among those of the blocks visited or, at
\* level 6, a spending transaction that cannot be read, is invalid or does
\* not spend the output.
SpentFails(txpos, txSpend) ==
    /\ txpos # NullPos
    /\ \/ txpos \notin DOMAIN mapBlockPos
       \/ nCheckLevel > 5 /\ txSpend # "spends"

\* What a read of the spending transaction may give.
SpendReads == {"unreadable", "invalid", "elsewhere", "spends"}

\* One round of the loop over txindex.vSpent (check levels 4 and 6): the
\* loop ends, or the next marker is null or names a position; at level 6 the
\* spending transaction read from there is unreadable, invalid, does not
\* spend the output, or spends it.
WalkSpent ==
    /\ pc = "spent"
    /\ \/ /\ pc' = AfterSpent
          /\ nOutput' = 0
          /\ UNCHANGED <<pindexFork, histVars>>
       \/ /\ nOutput < MaxOut
          /\ nOutput' = nOutput + 1
          /\ pc' = pc
          /\ UNCHANGED <<visited, noIndex>>
          /\ \E fail \in {SpentFails(txpos, txSpend) :
                              txpos \in {NullPos} \cup Positions,
                              txSpend \in SpendReads} :
                pindexFork' = Fork(fail) /\ NoteFailure(fail)
    /\ UNCHANGED <<inputVars, shutdownVars, it, TotalNumBlocks, bestCheckpoint,
                   vDiskBlockIndex, idx, nodes, mapBlockIndex, pindexGenesisBlock,
                   ret, tipVars, nCheckDepth, pindex, mapBlockPos, txNo, txHasIndex,
                   setBestChain>>

\* Whether the input's prevout counts as unspent, given the index record of
\* its origin: size = vSpent.size(), n = prevout.n, isNull = what
\* vSpent[n].IsNull() reads.  vSpent.size()-1 is unsigned, so an empty vSpent
\* passes the first test and vSpent[n] is read out of bounds.
UnspentPrevout(size, n, isNull) ==
    IF size > 0 /\ size - 1 < n THEN TRUE ELSE isNull

\* One round of the loop over tx.vin (check level 5): the loop ends, or the
\* origin of the next input has no index record, or one.
WalkVin ==
    /\ pc = "vin"
    /\ \/ /\ pc' = "tx"
          /\ nOutput' = 0
          /\ UNCHANGED <<pindexFork, histVars>>
       \/ /\ nOutput < MaxIn
          /\ nOutput' = nOutput + 1
          /\ pc' = pc
          /\ UNCHANGED <<visited, noIndex>>
          /\ \E fail \in {found /\ UnspentPrevout(size, n, isNull) :
                              found \in BOOLEAN, isNull \in BOOLEAN,
                              size \in 0 .. MaxOut, n \in 0 .. MaxOut} :
                pindexFork' = Fork(fail) /\ NoteFailure(fail)
    /\ UNCHANGED <<inputVars, shutdownVars, it, TotalNumBlocks, bestCheckpoint,
                   vDiskBlockIndex, idx, nodes, mapBlockIndex, pindexGenesisBlock,
                   ret, tipVars, nCheckDepth, pindex, mapBlockPos, txNo, txHasIndex,
                   setBestChain>>

\* A reorg that does not look at the shutdown flag.
Repair_IgnoresShutdown ==
    /\ pc = "repair"
    /\ pc' = "done"
    /\ IF pindexFork # NULL
       THEN \E readOK \in BOOLEAN :
               IF ~readOK
               THEN ret' = "error" /\ UNCHANGED setBestChain
               ELSE ret' = "true" /\ setBestChain' = pindexFork
       ELSE ret' = "true" /\ UNCHANGED setBestChain
    /\ UNCHANGED <<inputVars, shutdownVars, it, TotalNumBlocks, bestCheckpoint,
                   vDiskBlockIndex, idx, nodes, mapBlockIndex, pindexGenesisBlock,
                   tipVars, nCheckDepth, pindex, pindexFork, mapBlockPos, txNo,
                   txHasIndex, nOutput, histVars>>

\* After the walk: reorg back to the fork, if there is one.
Repair ==
    /\ pc = "repair"
    /\ pc' = "done"
    /\ IF pindexFork # NULL /\ ~fRequestShutdown
       THEN \E readOK \in BOOLEAN :
               IF ~readOK
               THEN ret' = "error" /\ UNCHANGED setBestChain
               ELSE ret' = "true" /\ setBestChain' = pindexFork
       ELSE ret' = "true" /\ UNCHANGED setBestChain
    /\ UNCHANGED <<inputVars, shutdownVars, it, TotalNumBlocks, bestCheckpoint,
                   vDiskBlockIndex, idx, nodes, mapBlockIndex, pindexGenesisBlock,
                   tipVars, nCheckDepth, pindex, pindexFork, mapBlockPos, txNo,
                   txHasIndex, nOutput, histVars>>

\* The locals and globals of LoadBlockIndex before it runs.
FreshIndex ==
    /\ fRequestShutdown = FALSE
    /\ shutdownAt = "none"
    /\ it = 1
    /\ bestCheckpoint = 0
    /\ vDiskBlockIndex = <<>>
    /\ idx = 1
    /\ nodes = <<>>
    /\ mapBlockIndex = <<>>
    /\ pindexGenesisBlock = NULL
    /\ hashBestChain = 0
    /\ pindexBest = NULL
    /\ nBestHeight = 0
    /\ nBestChainTrust = 0
    /\ ret = "none"
    /\ nCheckDepth = 0
    /\ pindex = NULL
    /\ pindexFork = NULL
    /\ mapBlockPos = <<>>
    /\ txNo = 0
    /\ txHasIndex = FALSE
    /\ nOutput = 0
    /\ setBestChain = NULL
    /\ visited = {}
    /\ failed = {}
    /\ lastFailed = NULL
    /\ noIndex = {}

\* No load: the index as the record store's specification leaves it.
IdleIndex ==
    /\ FreshIndex
    /\ TotalNumBlocks = 0
    /\ pc = "done"
    /\ store = <<>>
    /\ tailKeys = FALSE
    /\ mapCheckpoints = {0}
    /\ nCheckLevel = DefaultCheckLevel
    /\ nCheckBlocks = DefaultCheckBlocks

\* The checkpoint selection about to run on a count and a table.
CheckpointHeights == {0, 5, Margin + 2, Margin + 5}
InitSel ==
    /\ FreshIndex
    /\ pc = "select"
    /\ store = <<>>
    /\ tailKeys = FALSE
    /\ mapCheckpoints \in SUBSET CheckpointHeights
    /\ nCheckLevel = DefaultCheckLevel
    /\ nCheckBlocks = DefaultCheckBlocks
    /\ TotalNumBlocks \in 0 .. MaxBlocks

\* LoadBlockIndex about to run: on any store with the default options, or
\* on a chain with any options.
InitIndex ==
    /\ FreshIndex
    /\ TotalNumBlocks = 0
    /\ pc = "count"
    /\ tailKeys \in BOOLEAN
    /\ mapCheckpoints = {0, 2}
    /\ \/ /\ store \in GeneralStores
          /\ nCheckLevel = DefaultCheckLevel
          /\ nCheckBlocks = DefaultCheckBlocks
       \/ /\ store \in ChainStores
          /\ nCheckLevel \in CheckLevels
          /\ nCheckBlocks \in CheckBlocks

\* The chain 1 <- 2 <- ... <- ChainLen with all its records, and with the
\* record of block h missing.
FullChain == [h \in 1 .. ChainLen |-> ChainRecord(h, ChainLen)]
ChainWithout(h) == [k \in (1 .. ChainLen) \ {h} |-> ChainRecord(k, ChainLen)]
MidChain == 2 .. (ChainLen - 1)

\* LoadBlockIndex about to run on such a chain, with the default options.
InitChain ==
    /\ FreshIndex
    /\ TotalNumBlocks = 0
    /\ pc = "count"
    /\ tailKeys = TRUE
    /\ mapCheckpoints = {0, 2}
    /\ store \in {FullChain} \cup {ChainWithout(h) : h \in MidChain}
    /\ nCheckLevel = DefaultCheckLevel
    /\ nCheckBlocks = DefaultCheckBlocks

(***************************************************************************)
(* The specifications.                                                     *)
(***************************************************************************)
NextStore ==
    \/ \E k \in Keys, v \in Vals : Write(k, v) /\ UNCHANGED <<diskVars, otherVars, indexVars>>
    \/ \E k \in Keys : Erase(k) /\ UNCHANGED <<diskVars, otherVars, indexVars>>
    \/ TxnBegin /\ UNCHANGED <<diskVars, otherVars, indexVars>>
    \/ TxnCommit /\ UNCHANGED <<diskVars, otherVars, indexVars>>
    \/ Close /\ UNCHANGED <<diskVars, otherVars, indexVars>>

\* The record store, with no load going on.
InitSpecStore == InitStore /\ IdleDisk /\ IdleOther /\ IdleIndex
SpecStore == InitSpecStore /\ [][NextStore]_vars

\* The record store from the construction of its instance on.
NextOpen ==
    \/ \E mode \in Modes : CTxDB(mode) /\ UNCHANGED <<otherVars, indexVars>>
    \/ \E k \in Keys, v \in Vals : Write(k, v) /\ UNCHANGED <<diskVars, otherVars, indexVars>>
    \/ Close /\ UNCHANGED <<diskVars, otherVars, indexVars>>

InitSpecOpen == InitOpen /\ IdleOther /\ IdleIndex
SpecOpen == InitSpecOpen /\ [][NextOpen]_vars

\* Two instances on the one handle: batches and Close on the first,
\* construction and batches on the second.
NextShare ==
    \/ TxnBegin /\ UNCHANGED <<diskVars, otherVars, indexVars>>
    \/ TxnCommit /\ UNCHANGED <<diskVars, otherVars, indexVars>>
    \/ Close /\ UNCHANGED <<diskVars, otherVars, indexVars>>
    \/ OtherCTxDB /\ UNCHANGED <<diskVars, indexVars>>
    \/ OtherTxnBegin /\ UNCHANGED <<diskVars, indexVars>>

InitSpecShare == InitStore /\ IdleDisk /\ IdleOther /\ IdleIndex
SpecShare == InitSpecShare /\ [][NextShare]_vars

\* LoadBlockIndex with the default options, whose walk stops at check
\* level 1.
NextChain ==
    \/ RequestShutdown /\ UNCHANGED <<storeVars, diskVars, otherVars>>
    \/ CountStep /\ UNCHANGED <<storeVars, diskVars, otherVars>>
    \/ Select /\ UNCHANGED <<storeVars, diskVars, otherVars>>
    \/ StreamStep /\ UNCHANGED <<storeVars, diskVars, otherVars>>
    \/ ResolveStep /\ UNCHANGED <<storeVars, diskVars, otherVars>>
    \/ LoadEnd /\ UNCHANGED <<storeVars, diskVars, otherVars>>
    \/ CalcTrust /\ UNCHANGED <<storeVars, diskVars, otherVars>>
    \/ ResolveTip /\ UNCHANGED <<storeVars, diskVars, otherVars>>
    \/ SyncCheckpoint /\ UNCHANGED <<storeVars, diskVars, otherVars>>
    \/ WalkBlock /\ UNCHANGED <<storeVars, diskVars, otherVars>>
    \/ Repair /\ UNCHANGED <<storeVars, diskVars, otherVars>>

\* LoadBlockIndex on a chain of ChainLen blocks, whole or with the record of
\* one block between the genesis block and the tip missing.
InitSpecChain == IdleStore /\ IdleDisk /\ IdleOther /\ InitChain
SpecChain == InitSpecChain /\ [][NextChain]_vars

NextSel == Select /\ UNCHANGED <<storeVars, diskVars, otherVars>>

\* The checkpoint selection applied to a count and a table.
InitSpecSel == IdleStore /\ IdleDisk /\ IdleOther /\ InitSel
SpecSel == InitSpecSel /\ [][NextSel]_vars

Next ==
    \/ RequestShutdown /\ UNCHANGED <<storeVars, diskVars, otherVars>>
    \/ CountStep /\ UNCHANGED <<storeVars, diskVars, otherVars>>
    \/ Select /\ UNCHANGED <<storeVars, diskVars, otherVars>>
    \/ StreamStep /\ UNCHANGED <<storeVars, diskVars, otherVars>>
    \/ ResolveStep /\ UNCHANGED <<storeVars, diskVars, otherVars>>
    \/ LoadEnd /\ UNCHANGED <<storeVars, diskVars, otherVars>>
    \/ CalcTrust /\ UNCHANGED <<storeVars, diskVars, otherVars>>
    \/ ResolveTip /\ UNCHANGED <<storeVars, diskVars, otherVars>>
    \/ SyncCheckpoint /\ UNCHANGED <<storeVars, diskVars, otherVars>>
    \/ WalkBlock /\ UNCHANGED <<storeVars, diskVars, otherVars>>
    \/ WalkTx /\ UNCHANGED <<storeVars, diskVars, otherVars>>
    \/ WalkSpent /\ UNCHANGED <<storeVars, diskVars, otherVars>>
    \/ WalkVin /\ UNCHANGED <<storeVars, diskVars, otherVars>>
    \/ Repair /\ UNCHANGED <<storeVars, diskVars, otherVars>>

\* LoadBlockIndex on a store opened by CTxDB::CTxDB.
Init == IdleStore /\ IdleDisk /\ IdleOther /\ InitIndex
Spec == Init /\ [][Next]_vars

(***************************************************************************)
(* Properties of the record store.                                         *)
(***************************************************************************)
\* The operations buffered in the open batch.
Buffered == heap[activeBatch]
\* The position of the most recent buffered operation on key k, 0 if none.
LastIdx(ops, k) ==
    LET S == {i \in 1 .. Len(ops) : ops[i].key = k}
    IN IF S = {} THEN 0 ELSE CHOOSE i \in S : \A j \in S : j <= i

\* C4: batch read-your-writes.  While a batch is open, right after
\* write(k, v) a read(k) returns v, right after erase(k) exists(k) is false
\* even if the store holds k, and a key the batch does not touch is read
\* from the underlying store.
C4_BatchReadYourWrites ==
    (spc = "run" /\ activeBatch # NULL) =>
        /\ (last.op = "Write" => Read(last.key) = last.val)
        /\ (last.op = "Erase" => ~Exists(last.key))
        /\ pdb # NULL =>
              \A k \in Keys :
                  LastIdx(Buffered, k) = 0 =>
                      /\ Read(k) = db[k]
                      /\ Exists(k) = (db[k] # NoVal)

\* C4 happens: a key the store holds was just erased in the open batch, and
\* another key the store holds is untouched by the batch.
C4_Witness ==
    /\ spc = "run" /\ activeBatch # NULL /\ pdb # NULL
    /\ last.op = "Erase"
    /\ db[last.key] # NoVal
    /\ \E k \in Keys : LastIdx(Buffered, k) = 0 /\ db[k] # NoVal

\* C5: within one open batch, ScanBatch reports only the most recent
\* operation on a key: found with the value of the last Put if that was a
\* Put, found and deleted if that was a Delete.
C5_LastOperationWins ==
    (spc = "run" /\ activeBatch # NULL) =>
        \A k \in Keys :
            LET i == LastIdx(Buffered, k)
                s == ScanBatch(k)
            IN IF i = 0
               THEN ~s.foundEntry /\ ~s.deleted
               ELSE /\ s.foundEntry
                    /\ Buffered[i].op = "Put" =>
                          ~s.deleted /\ s.foundValue = Buffered[i].val
                    /\ Buffered[i].op = "Delete" => s.deleted

\* C5 happens: Put, Delete, Put of another value, all on one key.
C5_Witness ==
    /\ spc = "run" /\ activeBatch # NULL
    /\ Len(Buffered) >= 3
    /\ \E k \in Keys :
          /\ \A i \in 1 .. 3 : Buffered[i].key = k
          /\ Buffered[1].op = "Put"
          /\ Buffered[2].op = "Delete"
          /\ Buffered[3].op = "Put"
          /\ Buffered[3].val # Buffered[1].val

\* C6: a step that leaves the batch open leaves the store unchanged, and a
\* successful TxnCommit leaves in the store, for every key, what the most
\* recent buffered operation on it says (the old record for other keys).
C6_BufferedUntilCommit ==
    [][ /\ (activeBatch # NULL /\ activeBatch' = activeBatch) => db' = db
        /\ (activeBatch # NULL /\ spc' = "run"
               /\ last'.op = "TxnCommit" /\ last'.ret) =>
              \A k \in Keys :
                  db'[k] = IF LastIdx(Buffered, k) = 0
                           THEN db[k]
                           ELSE Buffered[LastIdx(Buffered, k)].val
      ]_vars

\* C6 happens: a batch of at least two operations was committed, and the
\* store now lacks one key and holds the other.
C6_Witness ==
    /\ last.op = "TxnCommit" /\ last.ret /\ last.n >= 2
    /\ \E k1, k2 \in Keys : db[k1] = NoVal /\ db[k2] # NoVal

\* C7: at most one batch is live per instance, and it is the active one; a
\* TxnBegin while a batch is open is a failed assertion that changes nothing;
\* a batch is only ever opened from the state with no active batch.
C7_AtMostOneBatch ==
    /\ [](DOMAIN heap = IF activeBatch = NULL THEN {} ELSE {activeBatch})
    /\ [][ /\ (spc = "run" /\ activeBatch # NULL
                  /\ last'.op = "TxnBegin" /\ last' # last) =>
                 (spc' = "abort" /\ activeBatch' = activeBatch /\ heap' = heap)
           /\ (activeBatch' # NULL /\ activeBatch' # activeBatch) =>
                 activeBatch = NULL
         ]_vars

\* C7 happens: TxnBegin was called with a batch open.
C7_Witness ==
    /\ spc = "abort" /\ last.op = "TxnBegin" /\ activeBatch # NULL
    /\ Len(Buffered) >= 1

\* C8: when the store rejects the batch, TxnCommit returns false, no batch
\* stays open or allocated, and the store is as it was before the call.
C8_CommitFailureDiscards ==
    [][ (activeBatch # NULL /\ spc' = "run"
            /\ last'.op = "TxnCommit" /\ ~last'.status) =>
           /\ ~last'.ret
           /\ activeBatch' = NULL
           /\ DOMAIN heap' = {}
           /\ db' = db
      ]_vars

\* C8 happens: a batch holding operations was rejected by the store.
C8_Witness ==
    /\ spc = "run" /\ last.op = "TxnCommit"
    /\ ~last.status /\ last.n >= 1

(***************************************************************************)
(* Properties of the checkpoint selection.                                 *)
(***************************************************************************)
\* C3: for every block count N and every checkpoint table, the selected
\* height bestCheckpoint is below N - Margin when N > Margin, and is 0 when
\* N <= Margin.
C3_SelectionKeepsMargin ==
    [][ pc = "select" =>
           /\ TotalNumBlocks > Margin => bestCheckpoint' < TotalNumBlocks - Margin
           /\ TotalNumBlocks <= Margin => bestCheckpoint' = 0
      ]_vars

(***************************************************************************)
(* Properties of LoadBlockIndex.                                           *)
(***************************************************************************)
PPrev(p) == nodes[p].pprev
Height(p) == nodes[p].nHeight
\* The hash a node pointer stands for (0 for NULL).
HashOf(p) == IF p = NULL THEN 0 ELSE nodes[p].phashBlock
\* Heights strictly fall along the predecessor links the walk followed.
HeightsFallAlongWalk ==
    \A v \in visited : PPrev(v) \in visited => Height(PPrev(v)) < Height(v)
\* The walk is over and was not cut short by a failed block read.
WalkOver == pc = "repair"
\* Why the walk's loop was left.
LoopLeft ==
    \/ pindex = NULL
    \/ PPrev(pindex) = NULL
    \/ fRequestShutdown
    \/ Height(pindex) < nBestHeight - nCheckDepth

\* C1 as stated: when visited blocks failed a check, at the end of the walk
\* the repair point is the predecessor of a failed block of lowest height.
C1_RepairPointBelowLowestFailure ==
    (WalkOver /\ failed # {}) =>
        \E b \in failed :
            /\ \A c \in failed : Height(b) <= Height(c)
            /\ pindexFork = PPrev(b)

\* C1, amended: at the end of the walk the repair point is the predecessor
\* of the block that failed a check last (none if no block failed); where
\* heights strictly fall along the links walked, that block is the failed
\* block of lowest height.  A failure does not stop the walk: the loop is
\* only left by its own conditions.
C1_RepairPointIsLastFailure ==
    WalkOver =>
        /\ LoopLeft
        /\ failed = {} => pindexFork = NULL
        /\ failed # {} =>
              /\ lastFailed \in failed
              /\ pindexFork = PPrev(lastFailed)
              /\ HeightsFallAlongWalk =>
                    \A c \in failed \ {lastFailed} : Height(lastFailed) < Height(c)

\* C1 happens: two blocks of a chain with falling heights failed, and the
\* walk went on to its end.
C1_Witness ==
    /\ WalkOver /\ ~fRequestShutdown
    /\ HeightsFallAlongWalk
    /\ Cardinality(failed) >= 2

\* C2: at checklevel >= 2, once the walk has met a transaction without
\* index record in the block at hand, the repair point is that block's
\* predecessor; and a load that ends normally after such a walk has invoked
\* SetBestChain.
C2_MissingTxIndexSetsRepairPoint ==
    nCheckLevel >= 2 =>
        /\ (pc \in {"tx", "spent", "vin"} /\ pindex \in noIndex) =>
              pindexFork = PPrev(pindex)
        /\ (pc = "done" /\ ret = "true" /\ ~fRequestShutdown /\ noIndex # {}) =>
              setBestChain # NULL

\* The chain trust has been calculated.
TrustDone == pc \in {"tip", "sync", "walk", "tx", "spent", "vin", "repair"}
\* The trust of the predecessor (0 if none).
PrevTrust(p) == IF PPrev(p) = NULL THEN 0 ELSE nodes[PPrev(p)].nChainTrust

\* C9 as stated: after the trust calculation every node of the graph has
\* the trust of its predecessor (0 if none) plus its own contribution.
C9_TrustIsPrevPlusOwn ==
    TrustDone =>
        \A p \in MapNodes :
            /\ nodes[p].nChainTrust = PrevTrust(p) + GetBlockTrust(nodes[p])
            /\ nodes[p].nChainTrust >= PrevTrust(p)

\* C9, amended: this holds of every node without predecessor and of every
\* node whose predecessor has a strictly lower height.
C9_TrustIsPrevPlusOwnAboveLowerPrev ==
    TrustDone =>
        \A p \in MapNodes :
            (PPrev(p) = NULL \/ Height(PPrev(p)) < Height(p)) =>
                /\ nodes[p].nChainTrust = PrevTrust(p) + GetBlockTrust(nodes[p])
                /\ nodes[p].nChainTrust >= PrevTrust(p)

\* C9 happens: trust has been added up along two links of rising height.
C9_Witness ==
    /\ TrustDone
    /\ \E p \in MapNodes :
          /\ PPrev(p) # NULL /\ Height(PPrev(p)) < Height(p)
          /\ PPrev(PPrev(p)) # NULL /\ Height(PPrev(PPrev(p))) < Height(PPrev(p))
          /\ GetBlockTrust(nodes[PPrev(PPrev(p))]) > 0

\* The load pass read every record: it went on past the shutdown test that
\* follows it.
LoadComplete == pc = "trust" \/ TrustDone
NodesOf(h) == {p \in 1 .. Len(nodes) : nodes[p].phashBlock = h}

\* C10: no hash ever has more than one node and the zero hash has none;
\* after an uninterrupted load every stored hash has its node in
\* mapBlockIndex, with the fields and the neighbours of its record.
C10_OneNodePerStoredHash ==
    /\ \A h \in 0 .. (MaxHash + 1) : Cardinality(NodesOf(h)) <= 1
    /\ NodesOf(0) = {}
    /\ 0 \notin DOMAIN mapBlockIndex
    /\ LoadComplete =>
          \A h \in DOMAIN store :
              /\ h \in DOMAIN mapBlockIndex
              /\ NodesOf(h) = {mapBlockIndex[h]}
              /\ LET n == nodes[mapBlockIndex[h]]
                 IN /\ n.nHeight = store[h].nHeight
                    /\ n.nBlockPos = store[h].nBlockPos
                    /\ n.nBits = store[h].nBits
                    /\ HashOf(n.pprev) = store[h].hashPrev
                    /\ HashOf(n.pnext) = store[h].hashNext

\* C10 happens: a stored hash got its node when an earlier record named it,
\* and a hash without record got a node as a neighbour.
C10_Witness ==
    /\ LoadComplete
    /\ \E g, h \in DOMAIN store :
          /\ g < h
          /\ h \in {store[g].hashPrev, store[g].hashNext}
          /\ store[h].hashPrev # 0
    /\ \E h \in DOMAIN mapBlockIndex : h \notin DOMAIN store

\* A second load of the same records into a fresh graph, up to the trust
\* calculation: the resolve loop over the records in key order.
RECURSIVE LoadGraph(_, _)
LoadGraph(g, recs) ==
    IF recs = <<>>
    THEN g
    ELSE LoadGraph(ResolveRecord(g, Head(recs)).g, Tail(recs))
StoredRecords == [k \in 1 .. Len(RecordKeys) |-> store[RecordKeys[k]]]
SecondLoad == LoadGraph(Graph(<<>>, <<>>), StoredRecords)
\* No node has a predecessor of its own height.
NoEqualHeightLinks ==
    \A p \in MapNodes : PPrev(p) # NULL => Height(PPrev(p)) # Height(p)

C12_ShutdownInCountPass ==
    shutdownAt = "count" =>
        /\ pc \in LoadPcs \cup {"done"}
        /\ ret # "error"
        /\ pc = "done" => ret = "true"
        /\ DOMAIN mapBlockIndex \subseteq DOMAIN SecondLoad.map
        /\ \A p \in 1 .. Len(nodes) : nodes[p].nChainTrust = 0
        /\ hashBestChain = 0 /\ pindexBest = NULL
        /\ nBestHeight = 0 /\ nBestChainTrust = 0
        /\ visited = {} /\ failed = {}
        /\ pindexFork = NULL /\ setBestChain = NULL

\* C12 happens: the store holds records, shutdown was requested during the
\* count pass, and LoadBlockIndex has returned.
C12_Witness ==
    /\ shutdownAt = "count"
    /\ store # <<>>
    /\ pc = "done" /\ ret = "true"

\* C13: when shutdown is requested during the validation walk, no further
\* block is read, LoadBlockIndex does not fail, and SetBestChain is not
\* invoked, whether or not a repair point is recorded.
C13_ShutdownInWalkNoRepair ==
    /\ [](shutdownAt = "walk" =>
            /\ setBestChain = NULL
            /\ ret # "error"
            /\ pc \in WalkPcs \cup {"repair", "done"}
            /\ pc = "done" => ret = "true")
    /\ [][fRequestShutdown => visited' = visited]_vars

\* C13 happens: a repair point was recorded, then shutdown was requested
\* during the walk, and LoadBlockIndex has returned.
C13_Witness ==
    /\ shutdownAt = "walk"
    /\ pindexFork # NULL
    /\ pc = "done" /\ ret = "true"

\* The step that resolves the tip.
TipStep == pc = "tip" /\ pc' # "tip"
\* What it did: the read of the tip record failed, or gave a hash the graph
\* does not have.
TipUnread == hashBestChain' = 0
TipUnknown == hashBestChain' # 0 /\ hashBestChain' \notin DOMAIN mapBlockIndex

\* C14 as stated: when no genesis block was found and the tip record
\* cannot be read, LoadBlockIndex returns failure.
C14_UnreadTipIsFatal ==
    [][(TipStep /\ TipUnread /\ pindexGenesisBlock = NULL) =>
          (pc' = "done" /\ ret' = "error")]_vars

\* C14, amended: when the tip record cannot be read, LoadBlockIndex returns
\* true if no genesis block was found and failure if one was found; a tip
\* hash the graph does not have is a failure.  In each case the best chain
\* stays unset.
C14_UnreadTipIsFatalWithGenesis ==
    [][TipStep =>
          /\ TipUnread =>
                /\ pc' = "done"
                /\ pindexGenesisBlock = NULL => ret' = "true"
                /\ pindexGenesisBlock # NULL => ret' = "error"
                /\ pindexBest' = NULL
          /\ TipUnknown =>
                /\ pc' = "done" /\ ret' = "error"
                /\ pindexBest' = NULL
      ]_vars

\* C14 happens: records were loaded, none of them the genesis block, the
\* read of the tip record failed, and LoadBlockIndex has returned true.
C14_Witness ==
    /\ pc = "done" /\ ret = "true"
    /\ ~fRequestShutdown
    /\ hashBestChain = 0
    /\ pindexGenesisBlock = NULL
    /\ store # <<>>

\* A call of the constructor, by the first opener or not.
CtorCall == \E mode \in Modes : CTxDB(mode)
FirstOpen == txdb = NULL
OldVersion == dbExists /\ version # 0 /\ version < DATABASE_VERSION

\* C15: when the first opener finds a version below DATABASE_VERSION, the
\* constructor returns with the store erased and recreated (none of the old
\* records left), the block files removed, and the version record equal to
\* DATABASE_VERSION as the only record written.
C15_OldVersionIsMigrated ==
    [][(CtorCall /\ FirstOpen /\ OldVersion) =>
          /\ spc' = "run"
          /\ dbExists' /\ txdb' # NULL /\ pdb' = txdb'
          /\ db' = NoRecords
          /\ blkFiles' = {}
          /\ version' = DATABASE_VERSION
      ]_vars

\* C16: a constructor that finds the handle takes it and returns: the
\* records, the version record, the database, the block files and the
\* handle are what they were, and the instance has no open batch.
C16_ReopenIsNoOp ==
    [][(CtorCall /\ ~FirstOpen) =>
          /\ pdb' = txdb
          /\ activeBatch' = NULL
          /\ spc' = "run"
          /\ UNCHANGED <<db, txdb, dbExists, version, blkFiles, heap>>
      ]_vars

\* C16 happens: an instance was constructed for creation on a handle whose
\* store has no version record, which a first opener would have written.
C16_Witness ==
    /\ last.op = "CTxDB" /\ last.ret /\ last.mode.c
    /\ txdb # NULL /\ pdb = txdb
    /\ version = 0

\* The hash of the tip record is that of the last block of the chain.
TipIsLast == hashBestChain = ChainLen
\* The sum of the contributions of the blocks 1 .. h.
RECURSIVE TrustUpTo(_)
TrustUpTo(h) ==
    IF h = 0 THEN 0 ELSE TrustUpTo(h - 1) + GetBlockTrust(nodes[mapBlockIndex[h]])

\* C17: on the whole chain of a genesis block and ten blocks, the load gives
\* a graph of exactly eleven nodes; with the tip record naming the last
\* block the tip is resolved without error, the best height is ten, that of
\* the tip node, and the best trust is the tip node's, the sum of the
\* chain's contributions.  Any failure after that is one of the reads and
\* writes that follow the tip resolution.
C17_LoadOfWholeChain ==
    /\ []((store = FullChain /\ LoadComplete) =>
             /\ Len(nodes) = ChainLen
             /\ Cardinality(MapNodes) = ChainLen
             /\ DOMAIN mapBlockIndex = 1 .. ChainLen)
    /\ []((store = FullChain /\ TipIsLast) =>
             /\ pindexBest = mapBlockIndex[ChainLen]
             /\ nBestHeight = ChainLen - 1
             /\ nBestHeight = Height(pindexBest)
             /\ nBestChainTrust = nodes[pindexBest].nChainTrust
             /\ nBestChainTrust = TrustUpTo(ChainLen))
    /\ [][(store = FullChain /\ TipStep /\ hashBestChain' = ChainLen) =>
             (pc' = "sync" /\ ret' = "none")]_vars
    /\ [][(store = FullChain /\ ret' = "error" /\ ret # "error") =>
             pc \in {"tip", "sync", "walk", "repair"}]_vars

\* C17 happens: the whole chain was loaded, the walk read its ten blocks
\* above the genesis block, and LoadBlockIndex returned true.
C17_Witness ==
    /\ store = FullChain /\ TipIsLast
    /\ ~fRequestShutdown
    /\ pc = "done" /\ ret = "true"
    /\ Cardinality(visited) = ChainLen - 1

\* The block whose record is missing, if there is one.
Missing == (1 .. ChainLen) \ DOMAIN store

\* C18: when the record of one block between the genesis block and the tip
\* is missing, the loaded graph has exactly one node for its hash, with
\* height, position and links as the constructor left them; the load and
\* the tip resolution do not fail, and the walk never reads that block.
C18_PlaceholderForMissingRecord ==
    /\ [](LoadComplete =>
             \A h \in Missing :
                /\ h \in DOMAIN mapBlockIndex
                /\ NodesOf(h) = {mapBlockIndex[h]}
                /\ nodes[mapBlockIndex[h]] = NewNode(h)
                /\ mapBlockIndex[h] \notin visited)
    /\ []((Missing # {} /\ LoadComplete) =>
             /\ Len(nodes) = ChainLen
             /\ Cardinality(MapNodes) = ChainLen)
    /\ [][(Missing # {} /\ TipStep /\ hashBestChain' = ChainLen) =>
             (pc' = "sync" /\ ret' = "none")]_vars
    /\ [][(Missing # {} /\ ret' = "error" /\ ret # "error") =>
             pc \in {"tip", "sync", "walk", "repair"}]_vars

\* C18 happens: the record of the fifth block is missing, the walk came
\* down from the tip to the block above it, and LoadBlockIndex returned
\* true.
C18_Witness ==
    /\ Missing = {5} /\ TipIsLast
    /\ ~fRequestShutdown
    /\ pc = "done" /\ ret = "true"
    /\ pindex = mapBlockIndex[5]
    /\ Cardinality(visited) = ChainLen - 5

\* C19: when no shutdown was requested during the count pass, the count it
\* leaves is the number of block-index records, whether or not keys of a
\* later tag follow them.
C19_CountIsNumberOfRecords ==
    (pc = "select" /\ shutdownAt # "count") =>
        TotalNumBlocks = Cardinality(DOMAIN store)

\* A node whose height is not above its predecessor's, with a trust that is
\* not its predecessor's plus its own contribution.
WrongTrust(p) ==
    /\ PPrev(p) # NULL
    /\ Height(p) <= Height(PPrev(p))
    /\ nodes[p].nChainTrust # PrevTrust(p) + GetBlockTrust(nodes[p])

\* C20: a load that ran to its end with a node of wrong trust, its height
\* not being above its predecessor's, has returned an error or has recorded
\* a failed block or a repair point.
C20_WrongTrustSurfaces ==
    (pc = "done" /\ shutdownAt = "none" /\ \E p \in MapNodes : WrongTrust(p)) =>
        \/ ret = "error"
        \/ failed # {}
        \/ pindexFork # NULL
        \/ setBestChain # NULL

\* A round of one of the loops handles a record or a block: the count loop
\* counts a key, the streaming loop appends a record, the resolve loop
\* turns a record into nodes, the walk reads a block.
CountsKey == pc = "count" /\ TotalNumBlocks' = TotalNumBlocks + 1
StreamsRecord == pc = "stream" /\ Len(vDiskBlockIndex') = Len(vDiskBlockIndex) + 1
ResolvesRecord == pc = "resolve" /\ idx' = idx + 1
ReadsBlock == pc = "walk" /\ visited' # visited

\* C21: once the shutdown flag is set, no loop handles more than one further
\* record or block: the streaming loop and the walk handle none when the
\* flag is set, and a round of the count loop or of the resolve loop that
\* runs with the flag set is the last of its loop.
C21_OneFurtherRecordAtMost ==
    [][fRequestShutdown =>
          /\ ~StreamsRecord
          /\ ~ReadsBlock
          /\ CountsKey => pc' # "count"
          /\ ResolvesRecord => idx' > Len(vDiskBlockIndex')
      ]_vars

\* The d blocks at the end of the chain that ends in node p: p and its
\* predecessors.
RECURSIVE LastBlocks(_, _)
LastBlocks(p, d) ==
    IF d = 0 \/ p = NULL
    THEN {}
    ELSE {p} \cup LastBlocks(PPrev(p), d - 1)
\* The chain that ends in node p goes down to a block of height 0 without
\* predecessor, the heights falling by one from block to block.
RECURSIVE WellFormedChain(_)
WellFormedChain(p) ==
    IF PPrev(p) = NULL
    THEN Height(p) = 0
    ELSE Height(PPrev(p)) = Height(p) - 1 /\ WellFormedChain(PPrev(p))
\* The walk ran to its end over a well-formed best chain, no shutdown
\* having been requested.
WalkedBestChain ==
    /\ WalkOver /\ ~fRequestShutdown
    /\ WellFormedChain(pindexBest)

\* C22: a walk that ran to its end has visited exactly the last nCheckDepth
\* blocks of the best chain, and no block without predecessor.
C22_WalkVisitsLastBlocks ==
    WalkedBestChain =>
        /\ visited = LastBlocks(pindexBest, nCheckDepth)
        /\ \A v \in visited : PPrev(v) # NULL

\* The positions of the blocks the walk has read, the block at hand among
\* them.
VisitedPositions == {nodes[v].nBlockPos : v \in visited}
\* A round of the loop over the spent markers.
SpentRound == pc = "spent" /\ nOutput' = nOutput + 1

NotMarkedSpent(size, n, isNull) == n >= size \/ isNull

\* C24: the inputs are checked at checklevel >= 5, and an input whose
\* origin has an index record in which the output is not marked spent sets
\* the repair point to the predecessor of the block at hand.
C24_UnspentPrevoutSetsRepairPoint ==
    pc = "vin" =>
        /\ nCheckLevel >= 5
        /\ pindex \in visited
        /\ \A size \in 0 .. MaxOut, n \in 0 .. MaxOut, isNull \in BOOLEAN :
              NotMarkedSpent(size, n, isNull) =>
                  Fork(UnspentPrevout(size, n, isNull)) = PPrev(pindex)

\* A step of LoadBlockIndex itself, not the request for shutdown.
LoaderStep == fRequestShutdown' = fRequestShutdown

\* C25: a round of the walk on a block the loop admits either reads the
\* block or, the read having failed, ends the load with an error at once,
\* whatever repair point is recorded; the reorg either invokes SetBestChain
\* with the repair point or, the read of its block having failed, ends the
\* load with an error; and a load that returned an error has not invoked
\* SetBestChain.
C25_FailedBlockReadIsFatal ==
    /\ [](ret = "error" => (pc = "done" /\ setBestChain = NULL))
    /\ [][/\ (pc = "walk" /\ ~LoopLeft /\ LoaderStep) =>
                \/ /\ visited' = visited \cup {pindex}
                   /\ pc' \in WalkPcs /\ ret' = ret
                \/ /\ pc' = "done" /\ ret' = "error"
                   /\ UNCHANGED <<visited, failed, pindexFork, setBestChain>>
          /\ (pc = "repair" /\ pindexFork # NULL /\ ~fRequestShutdown /\ LoaderStep) =>
                /\ pc' = "done"
                /\ \/ ret' = "true" /\ setBestChain' = pindexFork
                   \/ ret' = "error" /\ setBestChain' = NULL
         ]_vars

\* C25 happens: a block failed a check and a repair point was recorded, the
\* read of a later block of the walk failed, and LoadBlockIndex has returned
\* an error without a reorg.
C25_Witness ==
    /\ pc = "done" /\ ret = "error"
    /\ ~fRequestShutdown
    /\ failed # {} /\ pindexFork # NULL
    /\ ~LoopLeft
    /\ pindex \notin visited
    /\ setBestChain = NULL

\* C26: every live instance holds the current process-wide handle, and
\* once the store is closed no instance is left with a handle or an open
\* batch on it.
C26_InstancesHoldCurrentHandle ==
    /\ spc = "run" => pdb = txdb
    /\ liveOther =>
          /\ pdbOther = txdb
          /\ txdb = NULL => activeBatchOther = NULL

====
